---- MODULE Spec2Model ----
(***************************************************************************)
(* A state-machine model of the blog application in src/main.py: the three *)
(* tables behind the ORM (users, blog_posts, comments), the login session  *)
(* of each browser, and one action per request handler.                    *)
(*                                                                         *)
(* The store is the one the code connects to by default, SQLite            *)
(* (src/main.py:39):                                                       *)
(*   - UNIQUE constraints are enforced at INSERT/UPDATE time;              *)
(*   - FOREIGN KEY clauses are declared but not enforced (the code never   *)
(*     issues PRAGMA foreign_keys=ON);                                     *)
(*   - an INTEGER PRIMARY KEY is allocated as max(id)+1.                   *)
(* The ORM relationships carry no cascade option, so deleting a parent row *)
(* sets the foreign key of its children to NULL.                           *)
(*                                                                         *)
(* A handler that reads the store and writes to it later on the strength   *)
(* of what it read (register, edit_post, delete_post) is one step for each *)
(* round of reads and one for each commit, with the requests of other      *)
(* browsers free to run in between.  A browser sends one request at a time.*)
(***************************************************************************)
EXTENDS Integers, Sequences, FiniteSets, TLC

VARIABLES
    users,      \* rows of table "users"
    posts,      \* rows of table "blog_posts"
    comments,   \* rows of table "comments"
    session,    \* per browser: the user id held by the login cookie, or None
    inflight,   \* per browser: the request between its lookup and its commit
    response,   \* the last response sent
    today       \* the calendar day, counted from 1 January 2025

vars == <<users, posts, comments, session, inflight, response, today>>
store == <<users, posts, comments>>

----------------------------------------------------------------------------
(* Bounds of the model *)

MaxPostId == 2      \* highest id the model lets blog_posts allocate
MaxComments == 1    \* rows in comments (comments are never deleted)

(* Program constants *)

admin_id == 1
None == 0           \* Python None / SQL NULL in an integer position

(* Request inputs *)

Clients == {"b1", "b2"}
Emails == {"admin@blog.io", "user@blog.io"}
Passwords == {"pw-one", "pw-two"}
Names == {"Walker"}
Salts == {"a1b2c3d4", "e5f6a7b8"}
Texts == {"nice"}
TimesOfDay == {34200}

\* What a request carries for the handler's form: <<>> for a GET (or any request
\* whose form does not validate), the validated fields for a POST.
LoginForms == {<<>>} \cup (Emails \X Passwords)
RegisterForms == {<<>>} \cup (Emails \X Passwords \X Names)
PostForms == {<<>>,
              <<"T1", "S1", "B1", "http://x/y.png">>,
              <<"T1", "S2", "B2", "http://x/y.png">>,
              <<"T2", "S1", "B1", "http://x/z.png">>}   \* title, subtitle, body, img_url
CommentForms == {<<>>} \cup {<<text>> : text \in Texts}
Days == {0, 31}     \* sample days, counted from 1 January 2025
PostIds == 1..MaxPostId     \* ids a URL may carry

----------------------------------------------------------------------------
(* Formatting: strftime("%B %d, %Y") and strftime("%X") *)

MonthNames == <<"January", "February", "March", "April", "May", "June", "July",
                "August", "September", "October", "November", "December">>
MonthDays == <<31, 28, 31, 30, 31, 30, 31, 31, 30, 31, 30, 31>>
Digit == <<"0", "1", "2", "3", "4", "5", "6", "7", "8", "9">>

TwoDigits(n) == Digit[((n \div 10) % 10) + 1] \o Digit[(n % 10) + 1]

RECURSIVE MonthOf(_, _)
MonthOf(dayOfYear, m) ==
    IF m = 12 \/ dayOfYear <= MonthDays[m] THEN <<m, dayOfYear>>
    ELSE MonthOf(dayOfYear - MonthDays[m], m + 1)

FormatDate(day) ==
    LET md == MonthOf(day + 1, 1)
    IN  MonthNames[md[1]] \o " " \o TwoDigits(md[2]) \o ", 2025"

FormatTime(secs) ==
    TwoDigits(secs \div 3600) \o ":" \o TwoDigits((secs \div 60) % 60)
        \o ":" \o TwoDigits(secs % 60)

----------------------------------------------------------------------------
(* Credential store: werkzeug.security *)

Pbkdf2(salt, password) == <<"sha256", salt, password>>

generate_password_hash(password, salt) ==
    [method |-> "pbkdf2:sha256", salt |-> salt, hash |-> Pbkdf2(salt, password)]

check_password_hash_scheme_only(digest, password) ==
    digest.hash[1] = Pbkdf2(digest.salt, password)[1]

check_password_hash(digest, password) ==
    digest.hash = Pbkdf2(digest.salt, password)

----------------------------------------------------------------------------
(* Queries *)

Max(S) == CHOOSE x \in S : \A y \in S : y <= x

NextId(rows) == IF rows = {} THEN 1 ELSE Max({r.id : r \in rows}) + 1

find_user_by_name(email) == {u \in users : u.name = email}

find_user_by_email(email) == {u \in users : u.email = email}

get_post(post_id) == {p \in posts : p.id = post_id}

list_posts == posts

current_user(c) == session[c]

is_anonymous(c) == current_user(c) = None

----------------------------------------------------------------------------
(* Responses: the browser answered, the handler that answered, the status   *)
(* code, the endpoint of a redirect, and the message flashed with it.       *)

Render(c, route) ==
    [client |-> c, route |-> route, code |-> 200, to |-> "", flash |-> ""]
Redirect(c, route, to, flash) ==
    [client |-> c, route |-> route, code |-> 302, to |-> to, flash |-> flash]
Abort(c, route, code) ==
    [client |-> c, route |-> route, code |-> code, to |-> "", flash |-> ""]

----------------------------------------------------------------------------
Init ==
    /\ users = {}
    /\ posts = {}
    /\ comments = {}
    /\ session = [c \in Clients |-> None]
    /\ inflight = [c \in Clients |-> <<>>]
    /\ response = Abort("", "", 0)
    /\ today = 0

----------------------------------------------------------------------------
(* Route guards.  A guard yields 0 when the wrapped function is called and  *)
(* the HTTP error code otherwise.                                          *)

\* flask_login.login_required with no login_view configured: abort(401).
login_required(c) == IF is_anonymous(c) THEN 401 ELSE 0

\* decorated_function: current_user.id != admin_id.  The anonymous identity
\* has no attribute id, so evaluating the comparison on it is an unhandled
\* AttributeError.
admin_only_any_user(c) == IF is_anonymous(c) THEN 500 ELSE 0

admin_only(c) ==
    IF is_anonymous(c) THEN 500
    ELSE IF current_user(c) # admin_id THEN 403
    ELSE 0

AdminRoute_admin_first(c) ==
    IF admin_only(c) # 0 THEN admin_only(c) ELSE login_required(c)

\* @login_required is the outer decorator, @admin_only the inner one.
AdminRoute(c) == IF login_required(c) # 0 THEN login_required(c) ELSE admin_only(c)

validate_on_submit(form) == form # <<>>

\* A browser sends its next request once the previous one is answered;
\* requests of different browsers run concurrently.
Idle(c) == inflight[c] = <<>>

InFlight(c, op) == inflight[c] # <<>> /\ inflight[c][1].op = op

----------------------------------------------------------------------------
(* /register.  The duplicate lookup and the INSERT are separate steps of   *)
(* the request; requests of other browsers may run between them.           *)

RegisterLookup(c, form) ==
    /\ Idle(c)
    /\ IF ~validate_on_submit(form)
         THEN /\ response' = Render(c, "register")
              /\ UNCHANGED inflight
         ELSE IF find_user_by_email(form[1]) # {}
         THEN /\ response' = Redirect(c, "register", "login",
                    "You've already signed up with that email, log in instead!")
              /\ UNCHANGED inflight
         ELSE /\ inflight' = [inflight EXCEPT ![c] =
                    <<[op |-> "register", email |-> form[1],
                      password |-> form[2], name |-> form[3]]>>]
              /\ UNCHANGED response
    /\ UNCHANGED <<store, session, today>>

RegisterInsert(c, salt) ==
    /\ InFlight(c, "register")
    /\ LET data == inflight[c][1]
           new_user == [id |-> NextId(users),
                        email |-> data.email,
                        password |-> generate_password_hash(data.password, salt),
                        name |-> data.name]
       IN  IF \E u \in users : u.email = new_user.email
             THEN \* UNIQUE constraint failed: users.email -> IntegrityError
                  /\ response' = Abort(c, "register", 500)
                  /\ UNCHANGED <<users, session>>
             ELSE /\ users' = users \cup {new_user}
                  /\ session' = [session EXCEPT ![c] = new_user.id]
                  /\ response' = Redirect(c, "register", "get_all_posts", "")
    /\ inflight' = [inflight EXCEPT ![c] = <<>>]
    /\ UNCHANGED <<posts, comments, today>>

----------------------------------------------------------------------------
(* /login and /logout *)

Login(c, form) ==
    /\ Idle(c)
    /\ IF ~validate_on_submit(form)
         THEN /\ response' = Render(c, "login")
              /\ UNCHANGED session
         ELSE LET email == form[1]
                  password == form[2]
                  found == find_user_by_email(email)
              IN  IF found = {}
                    THEN /\ response' = Redirect(c, "login", "login",
                               "That email does not exist, please try again")
                         /\ UNCHANGED session
                    ELSE LET user == CHOOSE u \in found : TRUE
                         IN  IF ~check_password_hash(user.password, password)
                               THEN /\ response' = Redirect(c, "login", "login",
                                          "Password incorrect, please try again")
                                    /\ UNCHANGED session
                               ELSE /\ session' = [session EXCEPT ![c] = user.id]
                                    /\ response' = Redirect(c, "login", "get_all_posts", "")
    /\ UNCHANGED <<store, inflight, today>>

Logout(c) ==
    /\ Idle(c)
    /\ session' = [session EXCEPT ![c] = None]
    /\ response' = Redirect(c, "logout", "get_all_posts", "")
    /\ UNCHANGED <<store, inflight, today>>

----------------------------------------------------------------------------
(* / and /post/<post_id> *)

GetAllPosts(c) ==
    /\ Idle(c)
    /\ response' = Render(c, "get_all_posts")
    /\ UNCHANGED <<store, session, inflight, today>>

\* render_template("post.html", post=requested_post, ...): the template is not
\* part of the handler; with post=None it either renders or faults on the
\* first attribute chain through the missing post.
RenderPost(c, requested_post) ==
    IF requested_post = {} THEN {Render(c, "show_post"), Abort(c, "show_post", 500)}
    ELSE {Render(c, "show_post")}

new_comment_swapped(c, post_id, text, secs) ==
    [id |-> NextId(comments),
     author_id |-> post_id,
     post_id |-> current_user(c),
     text |-> text,
     date |-> FormatDate(today),
     time |-> FormatTime(secs)]

new_comment(c, post_id, text, secs) ==
    [id |-> NextId(comments),
     author_id |-> current_user(c),
     post_id |-> post_id,
     text |-> text,
     date |-> FormatDate(today),
     time |-> FormatTime(secs)]

ShowPost(c, post_id, form, secs) ==
    LET requested_post == get_post(post_id)
    IN  /\ Idle(c)
        /\ IF validate_on_submit(form)
             THEN IF is_anonymous(c)
                    THEN /\ response' = Redirect(c, "show_post", "login",
                               "You need to login or register to comment")
                         /\ UNCHANGED comments
                    ELSE /\ Cardinality(comments) < MaxComments
                         /\ comments' = comments \cup {new_comment(c, post_id, form[1], secs)}
                         /\ response' = Redirect(c, "show_post", "show_post", "")
             ELSE /\ response' \in RenderPost(c, requested_post)
                  /\ UNCHANGED comments
        /\ UNCHANGED <<users, posts, session, inflight, today>>

----------------------------------------------------------------------------
(* /new-post, /edit-post/<post_id>, /delete/<post_id> *)

new_post(c, title, subtitle, body, img_url) ==
    [id |-> NextId(posts),
     author_id |-> current_user(c),
     title |-> title,
     subtitle |-> subtitle,
     body |-> body,
     img_url |-> img_url,
     date |-> FormatDate(today)]

AddNewPost(c, form) ==
    /\ Idle(c)
    /\ IF AdminRoute(c) # 0
         THEN /\ response' = Abort(c, "add_new_post", AdminRoute(c))
              /\ UNCHANGED posts
         ELSE IF ~validate_on_submit(form)
         THEN /\ response' = Render(c, "add_new_post")
              /\ UNCHANGED posts
         ELSE IF \E p \in posts : p.title = form[1]
         THEN \* UNIQUE constraint failed: blog_posts.title -> IntegrityError
              /\ response' = Abort(c, "add_new_post", 500)
              /\ UNCHANGED posts
         ELSE /\ NextId(posts) <= MaxPostId
              /\ posts' = posts \cup {new_post(c, form[1], form[2], form[3], form[4])}
              /\ response' = Redirect(c, "add_new_post", "get_all_posts", "")
    /\ UNCHANGED <<users, comments, session, inflight, today>>

(* /edit-post/<post_id>.  The handler loads the post (line 268) and commits *)
(* its assignments later (line 282); requests of other browsers may run    *)
(* between the two steps.                                                  *)

EditPostLookup(c, post_id) ==
    /\ Idle(c)
    /\ IF AdminRoute(c) # 0
         THEN /\ response' = Abort(c, "edit_post", AdminRoute(c))
              /\ UNCHANGED inflight
         ELSE IF get_post(post_id) = {}
         THEN \* post is None: post.title -> AttributeError
              /\ response' = Abort(c, "edit_post", 500)
              /\ UNCHANGED inflight
         ELSE /\ inflight' = [inflight EXCEPT ![c] =
                    <<[op |-> "edit_post", post |-> CHOOSE p \in get_post(post_id) : TRUE]>>]
              /\ UNCHANGED response
    /\ UNCHANGED <<store, session, today>>

\* The value the form submits for a column of blog_posts (lines 277-281).
submitted(form, col) ==
    form[CHOOSE k \in 1..4 : <<"title", "subtitle", "body", "img_url">>[k] = col]

\* The columns the commit's UPDATE carries: those whose assigned value differs
\* from the value the handler loaded.
dirty(loaded, form) ==
    {col \in {"title", "subtitle", "img_url", "body"} : loaded[col] # submitted(form, col)}

edited_restamped(row, loaded, form) ==
    [col \in DOMAIN row |->
        IF col = "date" THEN FormatDate(today)
        ELSE IF col \in dirty(loaded, form) THEN submitted(form, col) ELSE row[col]]

\* UPDATE blog_posts SET <dirty columns> WHERE id = loaded.id, applied to the
\* row the table holds at commit time.
edited(row, loaded, form) ==
    [col \in DOMAIN row |->
        IF col \in dirty(loaded, form) THEN submitted(form, col) ELSE row[col]]

\* Lines 276-282: the assignments and db.session.commit().  The commit ends
\* the transaction and expires the loaded post.
EditPostCommit(c, form) ==
    /\ InFlight(c, "edit_post")
    /\ LET post == inflight[c][1].post
           stored == get_post(post.id)
           committed == [inflight EXCEPT ![c] =
                            <<[op |-> "edit_post_redirect", post_id |-> post.id]>>]
           done == [inflight EXCEPT ![c] = <<>>]
       IN  IF ~validate_on_submit(form)
             THEN /\ response' = Render(c, "edit_post")
                  /\ inflight' = done
                  /\ UNCHANGED posts
             ELSE IF dirty(post, form) = {}
             THEN \* nothing to flush: no UPDATE is sent
                  /\ inflight' = committed
                  /\ UNCHANGED <<posts, response>>
             ELSE IF stored = {}
             THEN \* the UPDATE matches no row -> StaleDataError
                  /\ response' = Abort(c, "edit_post", 500)
                  /\ inflight' = done
                  /\ UNCHANGED posts
             ELSE IF "title" \in dirty(post, form)
                       /\ \E p \in posts \ stored : p.title = form[1]
             THEN \* UNIQUE constraint failed: blog_posts.title -> IntegrityError
                  /\ response' = Abort(c, "edit_post", 500)
                  /\ inflight' = done
                  /\ UNCHANGED posts
             ELSE /\ posts' = (posts \ stored) \cup {edited(row, post, form) : row \in stored}
                  /\ inflight' = committed
                  /\ UNCHANGED response
    /\ UNCHANGED <<users, comments, session, today>>

\* Line 283: url_for("show_post", post_id=post.id) reads post.id of the expired
\* post, which SELECTs the row again; a row that is gone -> ObjectDeletedError.
EditPostRedirect(c) ==
    /\ InFlight(c, "edit_post_redirect")
    /\ response' = IF get_post(inflight[c][1].post_id) = {}
                     THEN Abort(c, "edit_post", 500)
                     ELSE Redirect(c, "edit_post", "show_post", "")
    /\ inflight' = [inflight EXCEPT ![c] = <<>>]
    /\ UNCHANGED <<store, session, today>>

(* /delete/<post_id>.  The handler loads the post (line 292); the commit   *)
(* (line 294) first SELECTs the comments of the post and then, in its      *)
(* write transaction, detaches those comments and deletes the post.        *)

DeletePostLookup(c, post_id) ==
    /\ Idle(c)
    /\ IF AdminRoute(c) # 0
         THEN /\ response' = Abort(c, "delete_post", AdminRoute(c))
              /\ UNCHANGED inflight
         ELSE IF get_post(post_id) = {}
         THEN \* db.session.delete(None) -> UnmappedInstanceError
              /\ response' = Abort(c, "delete_post", 500)
              /\ UNCHANGED inflight
         ELSE /\ inflight' = [inflight EXCEPT ![c] =
                    <<[op |-> "delete_post", post_id |-> post_id]>>]
              /\ UNCHANGED response
    /\ UNCHANGED <<store, session, today>>

\* The flush loads BlogPost.comments: SELECT ... FROM comments WHERE post_id = ?
DeletePostFlush(c) ==
    /\ InFlight(c, "delete_post")
    /\ LET post_id == inflight[c][1].post_id
       IN  inflight' = [inflight EXCEPT ![c] =
                <<[op |-> "delete_post_flush", post_id |-> post_id,
                   children |-> {cm.id : cm \in {x \in comments : x.post_id = post_id}}]>>]
    /\ UNCHANGED <<store, session, response, today>>

\* The relationship BlogPost.comments has no delete cascade, so the flush sets
\* post_id of the comments it loaded to NULL:
\* UPDATE comments SET post_id = NULL WHERE id = ?
orphaned(comment, children) ==
    IF comment.id \in children THEN [comment EXCEPT !.post_id = None] ELSE comment

\* ... then DELETE FROM blog_posts WHERE id = ? and COMMIT; a DELETE that
\* matches no row is only warned about.  Line 295 redirects.
DeletePostCommit(c) ==
    /\ InFlight(c, "delete_post_flush")
    /\ comments' = {orphaned(cm, inflight[c][1].children) : cm \in comments}
    /\ posts' = posts \ get_post(inflight[c][1].post_id)
    /\ response' = Redirect(c, "delete_post", "get_all_posts", "")
    /\ inflight' = [inflight EXCEPT ![c] = <<>>]
    /\ UNCHANGED <<users, session, today>>

\* The calendar advances.
Tick ==
    /\ today' \in {d \in Days : d > today}
    /\ UNCHANGED <<store, session, inflight, response>>

----------------------------------------------------------------------------
(* Specifications *)

Accounts(c) ==
    \/ \E form \in RegisterForms : RegisterLookup(c, form)
    \/ \E salt \in Salts : RegisterInsert(c, salt)

Sessions(c) ==
    \/ \E form \in LoginForms : Login(c, form)
    \/ Logout(c)

\* The requests to the admin-only routes.
Edits(c) ==
    \/ \E post_id \in PostIds : EditPostLookup(c, post_id)
    \/ \E form \in PostForms : EditPostCommit(c, form)
    \/ EditPostRedirect(c)

Deletes(c) ==
    \/ \E post_id \in PostIds : DeletePostLookup(c, post_id)
    \/ DeletePostFlush(c)
    \/ DeletePostCommit(c)

Posts(c) ==
    \/ \E form \in PostForms : AddNewPost(c, form)
    \/ Edits(c)
    \/ Deletes(c)

Blog(c) ==
    \/ GetAllPosts(c)
    \/ \E post_id \in PostIds, form \in CommentForms, secs \in TimesOfDay :
            ShowPost(c, post_id, form, secs)
    \/ Posts(c)

\* The whole application.  Its state space is the product of the parts below;
\* the properties are checked on each part.
Next == (\E c \in Clients : Accounts(c) \/ Sessions(c) \/ Blog(c)) \/ Tick

Spec == Init /\ [][Next]_vars

\* Registration, login and logout by two browsers on an empty store.
NextAccounts == \E c \in Clients : Accounts(c) \/ Sessions(c)

SpecAccounts == Init /\ [][NextAccounts]_vars

TwoUsers ==
    {[id |-> 1, email |-> "admin@blog.io", name |-> "Walker",
      password |-> generate_password_hash("pw-one", "a1b2c3d4")],
     [id |-> 2, email |-> "user@blog.io", name |-> "Walker",
      password |-> generate_password_hash("pw-two", "e5f6a7b8")]}

\* The blog once the first two accounts exist, the admin (id 1) and a reader,
\* visited through one browser that logs in as either of them.  InitBlog is
\* the state Spec reaches when b1 registers and logs out and then b2 does.
InitBlog ==
    /\ users = TwoUsers
    /\ posts = {}
    /\ comments = {}
    /\ session = [c \in Clients |-> None]
    /\ inflight = [c \in Clients |-> <<>>]
    /\ response = Redirect("b2", "logout", "get_all_posts", "")
    /\ today = 0

NextBlog == (\E c \in {"b1"} : Sessions(c) \/ Blog(c)) \/ Tick

SpecBlog == InitBlog /\ [][NextBlog]_vars

\* Two browsers, both logged in as the admin, working on the posts at the same
\* time.  InitAdmins is the state Spec reaches from InitBlog when b1 and then
\* b2 log in with the admin's credentials.
InitAdmins ==
    /\ users = TwoUsers
    /\ posts = {}
    /\ comments = {}
    /\ session = [c \in Clients |-> admin_id]
    /\ inflight = [c \in Clients |-> <<>>]
    /\ response = Redirect("b2", "login", "get_all_posts", "")
    /\ today = 0

NextAdmins == (\E c \in Clients : Posts(c)) \/ Tick

SpecAdmins == InitAdmins /\ [][NextAdmins]_vars

\* The same two sessions publishing, commenting and deleting at the same time.
NextComments ==
    \E c \in Clients :
        \/ \E form \in PostForms : AddNewPost(c, form)
        \/ Deletes(c)
        \/ \E post_id \in PostIds, form \in CommentForms, secs \in TimesOfDay :
              ShowPost(c, post_id, form, secs)

SpecComments == InitAdmins /\ [][NextComments]_vars

----------------------------------------------------------------------------
(* Properties.  A step is attributed to a handler by the action it          *)
(* satisfies; response'.client and response'.route select the candidate    *)
(* steps before the action is evaluated.                                   *)

NonAdmin(c) == session[c] # None /\ session[c] # admin_id

\* A step of a request to one of the three admin-only routes.
AdminOp(c) == Posts(c)

AdminRoutes == {"add_new_post", "edit_post", "delete_post"}

\* Every such step answers the browser or changes what it has in flight.
AdminStep(c) ==
    /\ \/ response'.client = c /\ response'.route \in AdminRoutes
       \/ inflight'[c] # inflight[c]
    /\ AdminOp(c)

\* C1: whenever an authenticated user whose id is not the admin id requests
\* /new-post, /edit-post/<id> or /delete/<id>, the response is 403 Forbidden,
\* the users, posts and comments tables are left as they were and the request
\* ends there: nothing of it is left to commit.
C1_NonAdminForbidden ==
    [][\A c \in Clients :
          (NonAdmin(c) /\ AdminStep(c)) =>
              /\ \E route \in AdminRoutes : response' = Abort(c, route, 403)
              /\ UNCHANGED <<store, inflight>>]_vars

\* A reader has just been refused the deletion of a post while the store holds
\* posts and a comment.
C1_Witness ==
    /\ \E c \in Clients : NonAdmin(c) /\ response = Abort(c, "delete_post", 403)
    /\ posts # {}
    /\ comments # {}

\* C8 as stated: an anonymous request to an admin-only route ends in a
\* redirect to the login page, with the store unchanged.
C8_AnonymousRedirectedToLogin ==
    [][\A c \in Clients :
          (session[c] = None /\ AdminStep(c)) =>
              /\ response'.client = c
              /\ response'.code = 302
              /\ response'.to = "login"
              /\ UNCHANGED store]_vars

\* C8, amended: on every admin-only route the authentication guard runs before
\* the admin guard: an anonymous request ends in 401 Unauthorized (an abort,
\* not a redirect), never in the fault that comparing the anonymous identity's
\* id would raise; the store and the sessions are unchanged and nothing of
\* the request is left to commit.
C8_AuthenticationCheckedFirst ==
    [][\A c \in Clients :
          (session[c] = None /\ AdminStep(c)) =>
              /\ \E route \in AdminRoutes : response' = Abort(c, route, 401)
              /\ UNCHANGED <<store, session, inflight>>]_vars

\* An anonymous visitor has just been refused /edit-post of an existing post.
C8_Witness ==
    /\ \E c \in Clients : session[c] = None /\ response = Abort(c, "edit_post", 401)
    /\ posts # {}

\* C2: a successful delete_post(id) leaves no comment of the deleted post
\* behind with a post reference that names no existing post: each such comment
\* is either removed or references a post that exists.
C2_DeleteLeavesNoOrphan ==
    [][\A c \in Clients :
          (response' = Redirect(c, "delete_post", "get_all_posts", "")
             /\ DeletePostCommit(c)) =>
              \A old \in {cm \in comments : cm.post_id = inflight[c][1].post_id} :
                  \A cm \in {x \in comments' : x.id = old.id} :
                      \E p \in posts' : p.id = cm.post_id]_vars

\* C3: every comment row written by POST /post/<id> references a user and a
\* post that both exist when the row is committed.
C3_CommentReferencesExist ==
    [][\A c \in Clients, post_id \in PostIds, form \in CommentForms, secs \in TimesOfDay :
          (response'.client = c /\ response'.route = "show_post"
             /\ ShowPost(c, post_id, form, secs)) =>
              \A cm \in comments' \ comments :
                  /\ \E u \in users' : u.id = cm.author_id
                  /\ \E p \in posts' : p.id = cm.post_id]_vars

\* C6: a comment submission by an anonymous visitor is answered with a redirect
\* to the login page and writes nothing; a submission by an authenticated user U
\* adds exactly one comment, whose author_id is U's id and whose post_id is the
\* id in the request, and changes nothing else in the store.
C6_CommentRequiresLogin ==
    [][\A c \in Clients, post_id \in PostIds, form \in CommentForms \ {<<>>},
          secs \in TimesOfDay :
          (response'.client = c /\ response'.route = "show_post"
             /\ ShowPost(c, post_id, form, secs)) =>
              IF session[c] = None
                THEN /\ response'.code = 302
                     /\ response'.to = "login"
                     /\ UNCHANGED store
                ELSE /\ \E cm \in comments' \ comments :
                          /\ comments' = comments \cup {cm}
                          /\ cm.author_id = session[c]
                          /\ cm.post_id = post_id
                          /\ \A old \in comments : old.id # cm.id
                     /\ UNCHANGED <<users, posts>>]_vars

\* The reader's comment on an existing post has just been stored.
C6_Witness ==
    /\ \E c \in Clients : response = Redirect(c, "show_post", "show_post", "")
    /\ \E cm \in comments :
          /\ cm.author_id = 2
          /\ \E p \in posts : p.id = cm.post_id

\* C7: looking up a post id that has no row ends in an explicit not-found
\* response (404) with the store unchanged, in show_post and, once the guards
\* have let the admin through, in edit_post and delete_post.
C7_AbsentPostIsNotFound ==
    [][\A c \in Clients, post_id \in PostIds :
          (get_post(post_id) = {} /\ response'.client = c) =>
              /\ (\E form \in CommentForms, secs \in TimesOfDay :
                      ShowPost(c, post_id, form, secs))
                    => (response'.code = 404 /\ UNCHANGED store)
              /\ (AdminRoute(c) = 0 /\ EditPostLookup(c, post_id))
                    => (response'.code = 404 /\ UNCHANGED <<store, inflight>>)
              /\ (AdminRoute(c) = 0 /\ DeletePostLookup(c, post_id))
                    => (response'.code = 404 /\ UNCHANGED <<store, inflight>>)]_vars

\* C9: an update_post(id, ...) by the admin changes at most the title,
\* subtitle, body and img_url of the post with that id: its commit leaves the
\* post's id, author and date, every other post, every comment and every user
\* unchanged; and when the request ends in the success redirect the post is
\* returned by get_post(id) and listed by list_posts.
C9_UpdateFrame ==
    [][\A c \in Clients :
          /\ \A form \in PostForms \ {<<>>} :
                EditPostCommit(c, form) =>
                    \A post_id \in {inflight[c][1].post.id} :
                        /\ session[c] = admin_id
                        /\ \A p \in posts : p.id # post_id => p \in posts'
                        /\ \A p \in posts' : p.id # post_id => p \in posts
                        /\ \A new \in get_post(post_id)' : \E old \in get_post(post_id) :
                              /\ new.author_id = old.author_id
                              /\ new.date = old.date
                        /\ UNCHANGED <<users, comments>>
          /\ (response' = Redirect(c, "edit_post", "show_post", "") /\ EditPostRedirect(c)) =>
                \A post_id \in {inflight[c][1].post_id} :
                    /\ session[c] = admin_id
                    /\ get_post(post_id)' # {}
                    /\ get_post(post_id)' \subseteq list_posts'
                    /\ UNCHANGED store]_vars

\* One admin session has just been answered with the success redirect of an
\* edit that ran while the other admin session edited the same post: the row
\* holds the title of one form and the subtitle of the other, and still bears
\* the date of an earlier day.
C9_Witness ==
    /\ \E c \in Clients : response = Redirect(c, "edit_post", "show_post", "")
    /\ \E p \in posts :
          /\ p.title = "T2"
          /\ p.subtitle = "S2"
          /\ p.date # FormatDate(today)

DuplicateEmail(c) ==
    Redirect(c, "register", "login",
             "You've already signed up with that email, log in instead!")

\* C4: a register submission whose email already belongs to a stored user
\* when the handler looks it up is answered with the DuplicateEmail redirect
\* (a flash message and a redirect to the login page); it adds no
\* user row (and leaves no insert pending), leaves every stored row as it was
\* and does not change the requester's session.
C4_DuplicateEmailRejected ==
    [][\A c \in Clients, form \in RegisterForms \ {<<>>} :
          ((\E u \in users : u.email = form[1]) /\ RegisterLookup(c, form)) =>
              /\ response' = DuplicateEmail(c)
              /\ UNCHANGED <<store, session>>
              /\ inflight'[c] = <<>>]_vars

\* A second registration with a stored email has just been turned away; the
\* table still holds the one row and the requester was not logged in.
C4_Witness ==
    \E c \in Clients :
        /\ response = DuplicateEmail(c)
        /\ Cardinality(users) = 1
        /\ session[c] = None
        /\ inflight[c] = <<>>

EmailNotFound(c) ==
    Redirect(c, "login", "login", "That email does not exist, please try again")

PasswordIncorrect(c) ==
    Redirect(c, "login", "login", "Password incorrect, please try again")

\* C5: a login submission changes the session only to the id of the stored
\* user u with the submitted email, and only when the submitted password
\* verifies against u's digest; with an unregistered email it is answered
\* "email does not exist", with a registered email and a wrong password
\* "password incorrect", and in both failures the session and the store are
\* unchanged.  No login changes the store.
C5_LoginOnlyWithCredentials ==
    [][\A c \in Clients, form \in LoginForms \ {<<>>} :
          (response'.client = c /\ response'.route = "login" /\ Login(c, form)) =>
              LET match == {u \in users : u.email = form[1]}
                  verified == {u \in match :
                                  u.password.hash = Pbkdf2(u.password.salt, form[2])}
              IN  /\ UNCHANGED store
                  /\ match = {} => (response' = EmailNotFound(c) /\ UNCHANGED session)
                  /\ (match # {} /\ verified = {})
                        => (response' = PasswordIncorrect(c) /\ UNCHANGED session)
                  /\ verified # {}
                        => /\ \E u \in verified : session' = [session EXCEPT ![c] = u.id]
                           /\ response' = Redirect(c, "login", "get_all_posts", "")]_vars

\* A wrong password for a registered email has just been refused and the
\* browser is still anonymous.
C5_Witness ==
    \E c \in Clients :
        /\ response = PasswordIncorrect(c)
        /\ users # {}
        /\ session[c] = None

\* C10: no state holds two users with the same email, and no register request
\* ends in anything but a commit of its user or the DuplicateEmail response.
C10_RegisterCommitsOrDuplicate ==
    /\ \A u1, u2 \in users : u1.email = u2.email => u1 = u2
    /\ \A c \in Clients :
          (response.client = c /\ response.route = "register") =>
              \/ response = Render(c, "register")
              \/ response = DuplicateEmail(c)
              \/ response = Redirect(c, "register", "get_all_posts", "")

====
